---- MODULE Spec2Model ----
(***************************************************************************)
(* Model of the "Unique attachments" plugin (src/src/main.ts): the two     *)
(* commands renameAllAttachments and renameOnlyActiveAttachments, and the  *)
(* per-file engine renameAttachmentIfNeeded they both call.                *)
(*                                                                         *)
(* A vault is a finite map from attachment paths to byte contents plus two *)
(* documents (one markdown note, one canvas) whose links are kept in their *)
(* resolved form.  Documents are not themselves rename candidates: their   *)
(* extensions are not in renameFileTypes, so the engine's entry gate       *)
(* returns false for them without any effect.                              *)
(*                                                                         *)
(* LinksHandler (./links-handler), path (./path) and Md5 (./md5/md5) are   *)
(* imported by main.ts but are not part of the source at hand; they are    *)
(* modelled from the specification's contracts (sections 4.1 - 4.4).       *)
(***************************************************************************)
EXTENDS Integers, Sequences, FiniteSets, TLC

\* ------------------------------------------------------------------ bounds
\* Files in the initial vault.
MaxFiles == 2
\* Link occurrences in the initial corpus, over both documents.
MaxLinks == 2
\* Storage operations that fail in one behaviour.
MaxFaults == 1

\* ------------------------------------------------------------------ universe
Dirs == {"att", "ign"}
Stems == {"x", "h1", "h2"}
Exts == {"png", "pdf"}
Paths == [dir : Dirs, stem : Stems, ext : Exts]

P(dir, stem, ext) == [dir |-> dir, stem |-> stem, ext |-> ext]

\* Paths an attachment may occupy in the initial vault.
InitPaths ==
    { P("att", "x", "png"), P("att", "h1", "png"), P("att", "h2", "png"),
      P("att", "x", "pdf"), P("ign", "x", "png") }

\* Byte contents.  b1 and b3 are different byte sequences with the same digest.
Contents == {"b1", "b2", "b3"}

NoteMd == [name |-> "note", ext |-> "md"]
NoteCanvas == [name |-> "board", ext |-> "canvas"]
DocPaths == {NoteMd, NoteCanvas}
DocOrder == <<NoteMd, NoteCanvas>>

\* ------------------------------------------------------------------ helpers
Range(s) == { s[i] : i \in 1..Len(s) }

SeqsUpTo(S, n) == UNION { [1..k -> S] : k \in 0..n }

\* All enumeration orders of a finite set.
Orders(S) == { s \in [1..Cardinality(S) -> S] : Range(s) = S }

\* The path as the string the code sees: dir "/" stem "." ext, by tokens.
PathStr(p) == <<p.dir, p.stem, p.ext>>

StartsWith(s, pre) == Len(pre) <= Len(s) /\ SubSeq(s, 1, Len(pre)) = pre

EndsWith(s, suf) ==
    Len(suf) <= Len(s) /\ SubSeq(s, Len(s) - Len(suf) + 1, Len(s)) = suf

\* ------------------------------------------------------------------ collaborators
\* Md5 digest rendered as hex: a fixed function of the bytes, not injective.
Md5(bytes) ==
    CASE bytes = "b1" -> "h1"
      [] bytes = "b2" -> "h2"
      [] bytes = "b3" -> "h1"

extname(p) == p.ext

basename(p, ext) == p.stem

\* lh.getFilePathWithRenamedBaseName: replace the stem, keep directory and extension.
getFilePathWithRenamedBaseName(p, newBase) == [p EXCEPT !.stem = newBase]

\* A document's resolved references (none can be read from malformed JSON).
References(doc, filePath) == doc.ok /\ filePath \in Range(doc.links)

getNotesThatHaveLinkToFile(filePath, d) ==
    SelectSeq(DocOrder, LAMBDA n : n.ext = "md" /\ References(d[n], filePath))

getNotesThatHaveLinkToFileInCanvas(filePath, d) ==
    SelectSeq(DocOrder, LAMBDA n : n.ext = "canvas" /\ References(d[n], filePath))

\* Rewrite every reference of one document that resolves to oldPath.
RewriteLinks(doc, oldPath, newPath) ==
    IF ~doc.ok THEN doc
    ELSE [doc EXCEPT !.links =
            [i \in 1..Len(doc.links) |->
                IF doc.links[i] = oldPath THEN newPath ELSE doc.links[i]]]

updateChangedPathInNote(doc, oldPath, newPath) == RewriteLinks(doc, oldPath, newPath)

updateChangedPathInCanvas(doc, oldPath, newPath) == RewriteLinks(doc, oldPath, newPath)

\* ------------------------------------------------------------------ state
VARIABLES
    vault,          \* storage: attachment path -> bytes, for the files that exist
    docs,           \* document -> [ok, links]: parsed state and resolved references
    settings,       \* plugin settings
    pc,             \* "idle", or the command in progress: "all" / "active"
    queue,          \* the files still to visit in the command's for-loop
    renamedCount,   \* the loop's counter
    notice,         \* the Notice shown by the current command run
    last,           \* what the last renameAttachmentIfNeeded call did
    pass,           \* the current (or last) command run: its start state and calls
    nfaults         \* storage operations that have failed so far

vars == <<vault, docs, settings, pc, queue, renamedCount, notice, last, pass, nfaults>>

\* Storage operations that can fail in a call: the read of the file's bytes, the
\* existence check, the read of the occupant's bytes, the rename and the delete.
Faults == {"none", "readBinary", "exists", "readTarget", "rename", "delete"}

\* ------------------------------------------------------------------ the engine
\* Mutant: no folder is ever ignored.
checkFilePathIsIgnored_Never(filePath, s) == FALSE

checkFilePathIsIgnored(filePath, s) ==
    \E folder \in s.ignoreFolders : StartsWith(PathStr(filePath), folder)

checkFileTypeIsAllowed(filePath, s) ==
    \E ext \in s.renameFileTypes : EndsWith(PathStr(filePath), <<ext>>)

\* Mutant: the digest is taken before the bytes have arrived (of an empty buffer).
generateValidBaseName_EmptyBuffer(filePath, v) == "h1"

\* Mutant: the digest is taken over the path, so it changes with every rename.
generateValidBaseName_OfPath(filePath, v) == IF filePath.stem = "h1" THEN "h2" ELSE "h1"

generateValidBaseName(filePath, v) == Md5(v[filePath])

\* vault.delete(file) and vault.rename(file, validPath) when they succeed.
DeleteFile(v, filePath) == [p \in DOMAIN v \ {filePath} |-> v[p]]

RenameFile(v, filePath, validPath) ==
    [p \in (DOMAIN v \ {filePath}) \cup {validPath} |->
        IF p = validPath THEN v[filePath] ELSE v[p]]

\* allNotes = [...new Set([...mdNotes, ...canvasNotes])]
AllNotes(filePath, d) ==
    getNotesThatHaveLinkToFile(filePath, d) \o getNotesThatHaveLinkToFileInCanvas(filePath, d)

\* Mutant: the reference loop is left out.
UpdateReferences_None(allNotes, d, filePath, validPath) == d

\* Mutant: the reference loop stops after the first note.
UpdateReferences_FirstOnly(allNotes, d, filePath, validPath) ==
    IF allNotes = <<>> THEN d
    ELSE [d EXCEPT ![Head(allNotes)] = RewriteLinks(@, filePath, validPath)]

\* The loop over allNotes that follows a successful delete or rename.
RECURSIVE UpdateReferences(_, _, _, _)
UpdateReferences(allNotes, d, filePath, validPath) ==
    IF allNotes = <<>> THEN d
    ELSE LET note == Head(allNotes)
             d1 == [d EXCEPT ![note] =
                      IF EndsWith(<<note.name, note.ext>>, <<"canvas">>)
                      THEN updateChangedPathInCanvas(d[note], filePath, validPath)
                      ELSE updateChangedPathInNote(d[note], filePath, validPath)]
         IN UpdateReferences(Tail(allNotes), d1, filePath, validPath)

RewriteOps(allNotes) == [i \in 1..Len(allNotes) |-> [op |-> "rewrite", note |-> allNotes[i]]]

\* Mutant: the base name is compared with its extension on, so it never matches.
AlreadyNamed_Never(baseName, validBaseName) == FALSE

\* Mutant: the stem is compared with its extension attached (file.name).
AlreadyNamed_WithExtension(baseName, validBaseName) == <<baseName>> = <<validBaseName, "ext">>

\* if (baseName == validBaseName) return false
AlreadyNamed(baseName, validBaseName) == baseName = validBaseName

\* Mutant: the only-linked setting is never honoured.
SkipUnlinked_Never(allNotes, s) == FALSE

\* if (allNotes.length == 0 && renameOnlyLinkedAttachments) return false
SkipUnlinked(allNotes, s) == Len(allNotes) = 0 /\ s.renameOnlyLinkedAttachments

\* Mutant: the existence check always answers false.
targetFileAlreadyExists_Never(validPath, v) == FALSE

\* await this.app.vault.adapter.exists(validPath)
targetFileAlreadyExists(validPath, v) == validPath \in DOMAIN v

\* Mutant: the occupant's fingerprint is not compared.
TargetClash_Never(validAnotherFileBaseName, validBaseName) == FALSE

\* if (validAnotherFileBaseName != validBaseName) return false
TargetClash(validAnotherFileBaseName, validBaseName) ==
    validAnotherFileBaseName # validBaseName

Outcome(v, d, result, decision, ops) ==
    [vault |-> v, docs |-> d, result |-> result, decision |-> decision, ops |-> ops]

\* Mutant: the occupant is deleted and the file renamed over it.
MergeBranch_ReplaceTarget(v, d, filePath, validPath, allNotes, fault) ==
    IF fault = "delete"
    THEN Outcome(v, d, "false", "delete_failed", <<[op |-> "delete_failed"]>>)
    ELSE Outcome(RenameFile(DeleteFile(v, validPath), filePath, validPath),
                 UpdateReferences(allNotes, d, filePath, validPath),
                 "true", "merge", <<[op |-> "delete"]>> \o RewriteOps(allNotes))

\* Mutant: the reference loop runs before the delete.
MergeBranch_RewriteFirst(v, d, filePath, validPath, allNotes, fault) ==
    IF fault = "delete"
    THEN Outcome(v, UpdateReferences(allNotes, d, filePath, validPath),
                 "false", "delete_failed",
                 RewriteOps(allNotes) \o <<[op |-> "delete_failed"]>>)
    ELSE Outcome(DeleteFile(v, filePath),
                 UpdateReferences(allNotes, d, filePath, validPath),
                 "true", "merge", RewriteOps(allNotes) \o <<[op |-> "delete"]>>)

\* The merge branch: delete inside try/catch, then the reference loop.
MergeBranch(v, d, filePath, validPath, allNotes, fault) ==
    IF fault = "delete"
    THEN Outcome(v, d, "false", "delete_failed", <<[op |-> "delete_failed"]>>)
    ELSE Outcome(DeleteFile(v, filePath),
                 UpdateReferences(allNotes, d, filePath, validPath),
                 "true", "merge", <<[op |-> "delete"]>> \o RewriteOps(allNotes))

\* Mutant: the reference loop runs before the rename.
RenameBranch_RewriteFirst(v, d, filePath, validPath, allNotes, fault) ==
    IF fault = "rename"
    THEN Outcome(v, UpdateReferences(allNotes, d, filePath, validPath),
                 "false", "rename_failed",
                 RewriteOps(allNotes) \o <<[op |-> "rename_failed"]>>)
    ELSE Outcome(RenameFile(v, filePath, validPath),
                 UpdateReferences(allNotes, d, filePath, validPath),
                 "true", "rename", RewriteOps(allNotes) \o <<[op |-> "rename"]>>)

\* The rename branch: rename inside try/catch, then the reference loop.
RenameBranch(v, d, filePath, validPath, allNotes, fault) ==
    IF fault = "rename"
    THEN Outcome(v, d, "false", "rename_failed", <<[op |-> "rename_failed"]>>)
    ELSE Outcome(RenameFile(v, filePath, validPath),
                 UpdateReferences(allNotes, d, filePath, validPath),
                 "true", "rename", <<[op |-> "rename"]>> \o RewriteOps(allNotes))

\* Mutant: the merge setting is not consulted.
TargetExistsBranch_IgnoresSetting(v, d, s, filePath, validBaseName, validPath, allNotes, fault) ==
    IF fault = "readTarget" THEN Outcome(v, d, "threw", "threw", <<>>)
    ELSE IF TargetClash(generateValidBaseName(validPath, v), validBaseName)
    THEN Outcome(v, d, "false", "blocked_clash", <<>>)
    ELSE MergeBranch(v, d, filePath, validPath, allNotes, fault)

\* The branch taken when a file exists at validPath.
TargetExistsBranch(v, d, s, filePath, validBaseName, validPath, allNotes, fault) ==
    IF fault = "readTarget" THEN Outcome(v, d, "threw", "threw", <<>>)
    ELSE IF TargetClash(generateValidBaseName(validPath, v), validBaseName)
    THEN Outcome(v, d, "false", "blocked_clash", <<>>)
    ELSE IF ~s.mergeTheSameAttachments
    THEN Outcome(v, d, "false", "blocked_duplicate", <<>>)
    ELSE MergeBranch(v, d, filePath, validPath, allNotes, fault)

\* renameAttachmentIfNeeded(file): the whole call, for a file that exists.
\* The result is "true", "false", or "threw" when an await outside the two
\* try blocks rejects.
renameAttachmentIfNeeded(filePath, v, d, s, fault) ==
    IF checkFilePathIsIgnored(filePath, s) \/ ~checkFileTypeIsAllowed(filePath, s)
    THEN Outcome(v, d, "false", "skip", <<>>)
    ELSE IF fault = "readBinary" THEN Outcome(v, d, "threw", "threw", <<>>)
    ELSE
      LET ext == extname(filePath)
          baseName == basename(filePath, ext)
          validBaseName == generateValidBaseName(filePath, v)
          allNotes == AllNotes(filePath, d)
          validPath == getFilePathWithRenamedBaseName(filePath, validBaseName)
      IN IF AlreadyNamed(baseName, validBaseName)
         THEN Outcome(v, d, "false", "noop", <<>>)
         ELSE IF SkipUnlinked(allNotes, s)
         THEN Outcome(v, d, "false", "unlinked", <<>>)
         ELSE IF fault = "exists" THEN Outcome(v, d, "threw", "threw", <<>>)
         ELSE IF targetFileAlreadyExists(validPath, v)
         THEN TargetExistsBranch(v, d, s, filePath, validBaseName, validPath,
                                 allNotes, fault)
         ELSE RenameBranch(v, d, filePath, validPath, allNotes, fault)

\* ------------------------------------------------------------------ commands
\* new Notice(...) at the end of either command.
CountNotice(count) ==
    IF count = 0 THEN <<"No files found that need to be renamed">>
    ELSE IF count = 1 THEN <<"Renamed 1 file.">>
    ELSE <<"Renamed ", count, " files.">>

NoCall == [file |-> <<>>, decision |-> "none", result |-> "none", ops |-> <<>>,
           vault |-> <<>>, docs |-> <<>>, count |-> 0]

FailureDecisions == {"threw", "rename_failed", "delete_failed"}

ActedDecisions == {"rename", "merge"}

NoPass == [kind |-> "none", status |-> "none", vault0 |-> <<>>, docs0 |-> <<>>,
           trace |-> <<>>, follows |-> "none", prevActed |-> FALSE,
           active |-> "none"]

TraceIdx == 1..Len(pass.trace)

PassFailed == \E i \in TraceIdx : pass.trace[i].decision \in FailureDecisions

FullPassReported == pass.kind = "all" /\ pass.status = "reported"

\* An attachment was blocked by a different-content file at its candidate path,
\* and the same pass moved that file away afterwards.
ClashFreedLater ==
    \E i, j \in TraceIdx :
        /\ i < j
        /\ pass.trace[i].decision = "blocked_clash"
        /\ pass.trace[j].file =
              [pass.trace[i].file EXCEPT !.stem = Md5(pass.vault0[pass.trace[i].file])]
        /\ pass.trace[j].decision \in ActedDecisions

\* Whether the command starting now is a full pass that directly follows a full
\* pass which ran to its report with no storage failure, and how that one went.
Follows(kind) ==
    IF kind = "all" /\ FullPassReported /\ ~PassFailed
    THEN IF ClashFreedLater THEN "clash_freed" ELSE "clean"
    ELSE "none"

NewPass(kind) ==
    [kind |-> kind, status |-> "running", vault0 |-> vault, docs0 |-> docs,
     trace |-> <<>>, follows |-> Follows(kind),
     prevActed |-> Follows(kind) # "none" /\ renamedCount > 0,
     active |-> "none"]

\* Object.keys(resolvedLinks[mdfile.path]): the distinct targets, in first-use order.
RECURSIVE Distinct(_)
Distinct(s) ==
    IF s = <<>> THEN <<>>
    ELSE LET r == Distinct(SubSeq(s, 1, Len(s) - 1))
         IN IF s[Len(s)] \in Range(r) THEN r ELSE Append(r, s[Len(s)])

\* Mutant: every call that returns is counted.
Counted_Always(renamed, count) == IF renamed = "threw" THEN count ELSE count + 1

\* if (renamed) renamedCount++
Counted(renamed, count) == IF renamed = "true" THEN count + 1 ELSE count

\* One loop iteration: let renamed = await renameAttachmentIfNeeded(file);
\* if (renamed) renamedCount++.  A rejected await leaves the command.
Visit(fault) ==
    LET file == Head(queue)
        out == renameAttachmentIfNeeded(file, vault, docs, settings, fault)
    IN /\ vault' = out.vault
       /\ docs' = out.docs
       /\ queue' = Tail(queue)
       /\ last' = [file |-> file, decision |-> out.decision, result |-> out.result,
                   ops |-> out.ops, vault |-> vault, docs |-> docs,
                   count |-> renamedCount]
       /\ renamedCount' = Counted(out.result, renamedCount)
       /\ pc' = IF out.result = "threw" THEN "idle" ELSE pc
       /\ pass' = [pass EXCEPT
                     !.trace = Append(@, [file |-> file, decision |-> out.decision]),
                     !.status = IF out.result = "threw" THEN "aborted" ELSE @]
       /\ nfaults' = IF out.decision \in FailureDecisions THEN nfaults + 1 ELSE nfaults
       /\ UNCHANGED <<settings, notice>>

\* The end of either command: the Notice chosen from renamedCount.
Report ==
    /\ queue = <<>>
    /\ notice' = CountNotice(renamedCount)
    /\ pc' = "idle"
    /\ pass' = [pass EXCEPT !.status = "reported"]
    /\ UNCHANGED <<vault, docs, settings, queue, renamedCount, last, nfaults>>

\* renameAllAttachments: files = vault.getFiles(), renamedCount = 0.
StartAll ==
    /\ pc = "idle"
    /\ \E files \in Orders(DOMAIN vault) : queue' = files
    /\ renamedCount' = 0
    /\ pc' = "all"
    /\ pass' = NewPass("all")
    /\ notice' = <<>>
    /\ last' = NoCall
    /\ UNCHANGED <<vault, docs, settings, nfaults>>

LoopAll ==
    /\ pc = "all"
    /\ queue # <<>>
    /\ \E fault \in Faults : (fault = "none" \/ nfaults < MaxFaults) /\ Visit(fault)

ReportAll == pc = "all" /\ Report

\* renameOnlyActiveAttachments with no active file.
ActiveNone ==
    /\ pc = "idle"
    /\ notice' = <<"No active file">>
    /\ pass' = [NewPass("active") EXCEPT !.status = "rejected"]
    /\ queue' = <<>>
    /\ renamedCount' = 0
    /\ last' = NoCall
    /\ UNCHANGED <<vault, docs, settings, pc, nfaults>>

\* renameOnlyActiveAttachments with an active file that is no document.
ActiveNotDoc ==
    /\ pc = "idle"
    /\ DOMAIN vault # {}
    /\ notice' = <<"Active file must be a markdown or canvas file">>
    /\ pass' = [NewPass("active") EXCEPT !.status = "rejected"]
    /\ queue' = <<>>
    /\ renamedCount' = 0
    /\ last' = NoCall
    /\ UNCHANGED <<vault, docs, settings, pc, nfaults>>

\* renameAttachmentsForActiveMD on a markdown note: the resolved links.
\* Mutant: the command enumerates every file of the vault, not the links of
\* the active document.
StartActiveMd_AllFiles ==
    /\ pc = "idle"
    /\ queue' \in Orders(DOMAIN vault)
    /\ renamedCount' = 0
    /\ pc' = "active"
    /\ pass' = [NewPass("active") EXCEPT !.active = "md"]
    /\ notice' = <<>>
    /\ last' = NoCall
    /\ UNCHANGED <<vault, docs, settings, nfaults>>

StartActiveMd ==
    /\ pc = "idle"
    /\ queue' = Distinct(docs[NoteMd].links)
    /\ renamedCount' = 0
    /\ pc' = "active"
    /\ pass' = [NewPass("active") EXCEPT !.active = "md"]
    /\ notice' = <<>>
    /\ last' = NoCall
    /\ UNCHANGED <<vault, docs, settings, nfaults>>

\* renameAttachmentsForActiveMD on a canvas: JSON.parse, then the file nodes.
StartActiveCanvas ==
    /\ pc = "idle"
    /\ docs[NoteCanvas].ok
    /\ queue' = docs[NoteCanvas].links
    /\ renamedCount' = 0
    /\ pc' = "active"
    /\ pass' = [NewPass("active") EXCEPT !.active = "canvas"]
    /\ notice' = <<>>
    /\ last' = NoCall
    /\ UNCHANGED <<vault, docs, settings, nfaults>>

\* JSON.parse(content) throws on a malformed canvas: the command rejects.
ActiveCanvasMalformed ==
    /\ pc = "idle"
    /\ ~docs[NoteCanvas].ok
    /\ pass' = [NewPass("active") EXCEPT !.status = "aborted", !.active = "canvas"]
    /\ queue' = <<>>
    /\ renamedCount' = 0
    /\ notice' = <<>>
    /\ last' = NoCall
    /\ UNCHANGED <<vault, docs, settings, pc, nfaults>>

\* if (!file) continue
ContinueActive ==
    /\ pc = "active"
    /\ queue # <<>>
    /\ Head(queue) \notin DOMAIN vault
    /\ queue' = Tail(queue)
    /\ UNCHANGED <<vault, docs, settings, pc, renamedCount, notice, last, pass, nfaults>>

LoopActive ==
    /\ pc = "active"
    /\ queue # <<>>
    /\ Head(queue) \in DOMAIN vault
    /\ \E fault \in Faults : (fault = "none" \/ nfaults < MaxFaults) /\ Visit(fault)

ReportActive == pc = "active" /\ Report

\* ------------------------------------------------------------------ initial states
\* The folder and type lists are fixed so that each gate both passes and stops
\* some file of InitPaths; files of different folders or types never meet at a
\* candidate path, so widening the lists adds no interaction.
SettingsSet ==
    [ignoreFolders : {{<<"ign">>}},
     renameFileTypes : {{"png"}},
     renameOnlyLinkedAttachments : BOOLEAN,
     mergeTheSameAttachments : BOOLEAN]

\* The bytes of a file the gate stops are never read: one content stands for all.
InitContents(p) == IF p.dir = "att" /\ p.ext = "png" THEN Contents ELSE {"b2"}

Vaults ==
    UNION { { v \in [S -> Contents] : \A p \in S : v[p] \in InitContents(p) } :
            S \in { T \in SUBSET InitPaths : Cardinality(T) <= MaxFiles } }

Init ==
    /\ vault \in Vaults
    /\ settings \in SettingsSet
    /\ \E md \in SeqsUpTo(DOMAIN vault, MaxLinks),
          cv \in SeqsUpTo(DOMAIN vault, MaxLinks),
          ok \in BOOLEAN :
            /\ Len(md) + Len(cv) <= MaxLinks
            /\ ~ok => cv = <<>>
            /\ docs = [n \in DocPaths |->
                         IF n = NoteMd THEN [ok |-> TRUE, links |-> md]
                         ELSE [ok |-> ok, links |-> cv]]
    /\ pc = "idle"
    /\ queue = <<>>
    /\ renamedCount = 0
    /\ notice = <<>>
    /\ last = NoCall
    /\ pass = NoPass
    /\ nfaults = 0

Next ==
    \/ StartAll
    \/ LoopAll
    \/ ReportAll
    \/ ActiveNone
    \/ ActiveNotDoc
    \/ StartActiveMd
    \/ StartActiveCanvas
    \/ ActiveCanvasMalformed
    \/ ContinueActive
    \/ LoopActive
    \/ ReportActive

Spec == Init /\ [][Next]_vars

\* ------------------------------------------------------------------ properties
\* Vocabulary of the properties, stated on the state and not through the engine.
Fingerprint(f, v) == Md5(v[f])

Canonical(f, v) == f.stem = Fingerprint(f, v)

CanonicalPath(f, v) == [dir |-> f.dir, stem |-> Fingerprint(f, v), ext |-> f.ext]

Gated(f, s) == <<f.dir>> \in s.ignoreFolders \/ f.ext \notin s.renameFileTypes

Referenced(f, d) == \E n \in DocPaths : d[n].ok /\ \E i \in 1..Len(d[n].links) : d[n].links[i] = f

\* The last call got as far as looking at the candidate path.
Engaged(f, v, d, s) ==
    /\ ~Gated(f, s)
    /\ ~Canonical(f, v)
    /\ Referenced(f, d) \/ ~s.renameOnlyLinkedAttachments

Called == last.decision # "none"

InPass == pass.kind # "none"

\* Attachments of the pass for which a rename or a merge was carried out.
Acted == Cardinality({ i \in TraceIdx : pass.trace[i].decision \in ActedDecisions })

\* The pass has renamed nothing, deleted nothing, rewritten nothing, counted
\* nothing, and its report, once shown, is "No files found ...".
DidNothing ==
    /\ vault = pass.vault0
    /\ docs = pass.docs0
    /\ renamedCount = 0
    /\ pass.status = "reported" => notice = CountNotice(0)

\* C1 as claimed: a full pass run right after a full pass that met no storage
\* failure renames nothing, deletes nothing and reports a count of zero.
C1_Idempotent == (pass.kind = "all" /\ pass.follows # "none") => DidNothing

\* C1 amended: the same, provided the first pass did not block an attachment on
\* a different-content file that it moved away later in the same pass.
C1_IdempotentUnlessClashFreed == (pass.kind = "all" /\ pass.follows = "clean") => DidNothing

\* A full pass that renamed something has been followed by a full pass, which
\* has reported zero.
C1_Witness ==
    /\ FullPassReported
    /\ pass.follows = "clean"
    /\ pass.prevActed
    /\ \E f \in DOMAIN vault : ~Gated(f, settings) /\ Canonical(f, vault) /\ Referenced(f, docs)
    /\ notice = CountNotice(0)

\* Every link of d0 that resolved in v0 resolves in v.
LinksResolve(v0, d0, v, d) ==
    \A n \in DocPaths : \A i \in 1..Len(d0[n].links) :
        d0[n].links[i] \in DOMAIN v0 =>
            /\ i <= Len(d[n].links)
            /\ d[n].links[i] \in DOMAIN v

\* ... and to the bytes it resolved to before.
LinksKeepBytes(v0, d0, v, d) ==
    \A n \in DocPaths : \A i \in 1..Len(d0[n].links) :
        (d0[n].links[i] \in DOMAIN v0 /\ i <= Len(d[n].links) /\ d[n].links[i] \in DOMAIN v)
            => v[d[n].links[i]] = v0[d0[n].links[i]]

InjectiveOn(v) ==
    \A p, q \in DOMAIN v : Md5(v[p]) = Md5(v[q]) => v[p] = v[q]

OccupiedByOther(f, v) ==
    /\ CanonicalPath(f, v) \in DOMAIN v
    /\ Fingerprint(CanonicalPath(f, v), v) # Fingerprint(f, v)

\* C3: a call on an attachment whose candidate path holds a file with a
\* different fingerprint renames nothing, deletes nothing, rewrites no document
\* and returns false (it returns nothing at all when a read or the existence
\* check of that call rejects); both files are as they were.
C3_CollisionSafety ==
    (Called /\ OccupiedByOther(last.file, last.vault))
        => /\ vault = last.vault
           /\ docs = last.docs
           /\ renamedCount = last.count
           /\ last.ops = <<>>
           /\ last.result = "false" \/ last.decision = "threw"

\* A referenced attachment reached the candidate check and was blocked there.
C3_Witness ==
    /\ Called
    /\ OccupiedByOther(last.file, last.vault)
    /\ Engaged(last.file, last.vault, last.docs, settings)
    /\ Referenced(last.file, last.docs)
    /\ settings.mergeTheSameAttachments
    /\ last.result = "false"

\* The call was on a file whose candidate path holds a file of the same
\* fingerprint, with the merge setting on, and it returned true.
MergeTaken ==
    /\ Called
    /\ Engaged(last.file, last.vault, last.docs, settings)
    /\ CanonicalPath(last.file, last.vault) \in DOMAIN last.vault
    /\ ~OccupiedByOther(last.file, last.vault)
    /\ settings.mergeTheSameAttachments
    /\ last.result = "true"

\* Every reference to old in d0 is a reference to new in d, at the same place.
Redirected(d0, d, old, new) ==
    \A n \in DocPaths :
        /\ Len(d[n].links) = Len(d0[n].links)
        /\ \A i \in 1..Len(d0[n].links) : d0[n].links[i] = old => d[n].links[i] = new

\* C4: after a merge that returned true the old path is gone, the file that
\* was at the canonical path is still there with its bytes, and every document
\* that referenced the old path references the canonical path.
C4_MergeInvariant ==
    MergeTaken =>
        LET old == last.file
            new == CanonicalPath(last.file, last.vault)
        IN /\ old \notin DOMAIN vault
           /\ new \in DOMAIN vault
           /\ vault[new] = last.vault[new]
           /\ Redirected(last.docs, docs, old, new)
           /\ ~Referenced(old, docs)

\* A merge of an attachment that both documents, or one twice, referenced.
C4_Witness ==
    /\ MergeTaken
    /\ Referenced(last.file, last.docs)
    /\ last.decision = "merge"

\* The call was on a file whose candidate path was free, and it returned true.
RenameTaken ==
    /\ Called
    /\ Engaged(last.file, last.vault, last.docs, settings)
    /\ CanonicalPath(last.file, last.vault) \notin DOMAIN last.vault
    /\ last.result = "true"

\* C5: after a successful rename the file is at the candidate path with its
\* bytes, every reference to the old path is a reference to the new one, and
\* every other link, every other document and every other file is unchanged.
C5_RenameFrame ==
    RenameTaken =>
        LET old == last.file
            new == CanonicalPath(last.file, last.vault)
        IN /\ DOMAIN vault = (DOMAIN last.vault \ {old}) \cup {new}
           /\ vault[new] = last.vault[old]
           /\ \A p \in DOMAIN last.vault \ {old} : vault[p] = last.vault[p]
           /\ \A n \in DocPaths :
                 /\ docs[n].ok = last.docs[n].ok
                 /\ Len(docs[n].links) = Len(last.docs[n].links)
                 /\ \A i \in 1..Len(docs[n].links) :
                       docs[n].links[i] =
                           IF last.docs[n].links[i] = old THEN new ELSE last.docs[n].links[i]

\* A rename of an attachment referenced beside a link to another file.
C5_Witness ==
    /\ RenameTaken
    /\ \E n \in DocPaths : \E i, j \in 1..Len(last.docs[n].links) :
          /\ last.docs[n].links[i] = last.file
          /\ last.docs[n].links[j] # last.file
    /\ Cardinality(DOMAIN vault) > 1

\* C6 as claimed: whatever storage operation fails while a file of a full pass
\* is processed, the pass still visits every file it listed at the start.
C6_BatchContinues ==
    (pass.kind = "all" /\ pc = "idle")
        => \A f \in DOMAIN pass.vault0 : \E i \in TraceIdx : pass.trace[i].file = f

\* C7: when the storage rename fails, no document is rewritten, the file stays
\* at its old path with its bytes, the call returns false and is not counted.
C7_RenameFailureAtomic ==
    (Called /\ last.decision = "rename_failed")
        => /\ docs = last.docs
           /\ vault = last.vault
           /\ last.file \in DOMAIN vault
           /\ CanonicalPath(last.file, last.vault) \notin DOMAIN vault
           /\ last.result = "false"
           /\ renamedCount = last.count
           /\ \A i \in 1..Len(last.ops) : last.ops[i].op # "rewrite"

\* The rename of an attachment that documents reference has failed.
C7_Witness ==
    /\ Called
    /\ last.decision = "rename_failed"
    /\ Referenced(last.file, last.docs)
    /\ RewriteOps(AllNotes(last.file, last.docs)) # <<>>

\* C8: in the merge path a rewrite happens only after the delete has succeeded;
\* when the delete fails no document has been rewritten, the file still exists
\* and the call returns false.
C8_DeleteBeforeRewrite ==
    Called =>
        /\ \A i \in 1..Len(last.ops) :
              (last.ops[i].op = "rewrite" /\ last.decision \in {"merge", "delete_failed"})
                  => \E j \in 1..(i - 1) : last.ops[j].op = "delete"
        /\ last.decision = "delete_failed"
              => /\ docs = last.docs
                 /\ vault = last.vault
                 /\ last.file \in DOMAIN vault
                 /\ last.result = "false"
                 /\ renamedCount = last.count

\* The delete of a referenced duplicate has failed.
C8_Witness ==
    /\ Called
    /\ last.decision = "delete_failed"
    /\ Referenced(last.file, last.docs)

\* Entries i < j of a full pass are two attachments of one folder and type with
\* identical bytes, both not canonically named, the canonical path free at the start.
DuplicatePair(i, j) ==
    LET a == pass.trace[i].file
        b == pass.trace[j].file
    IN /\ pass.kind = "all"
       /\ i < j
       /\ a.dir = b.dir /\ a.ext = b.ext
       /\ pass.vault0[a] = pass.vault0[b]
       /\ ~Canonical(a, pass.vault0)
       /\ ~Canonical(b, pass.vault0)
       /\ CanonicalPath(a, pass.vault0) \notin DOMAIN pass.vault0

TargetExistsDecision ==
    IF settings.mergeTheSameAttachments THEN "merge" ELSE "blocked_duplicate"

UnlinkedNoOp(f) ==
    ~Referenced(f, pass.docs0) /\ settings.renameOnlyLinkedAttachments

C10_CountAccuracy ==
    InPass =>
        /\ renamedCount = Acted
        /\ pass.status = "reported"
              => /\ notice = CountNotice(Acted)
                 /\ notice = CountNotice(0) <=> Acted = 0
        /\ notice = CountNotice(0) => (pass.status = "reported" /\ Acted = 0)

\* A pass that renamed one attachment and failed to rename another reports one.
C10_Witness ==
    /\ pass.status = "reported"
    /\ Acted = 1
    /\ \E i \in TraceIdx : pass.trace[i].decision \in {"rename_failed", "delete_failed"}
    /\ notice = CountNotice(1)

\* C11: a call moves at most the file it was given, and only to the path with
\* the same directory, the same extension and the fingerprint of the file's own
\* bytes as stem; no other path appears and no existing path gets other bytes.
C11_RenamedToCanonicalPath ==
    Called =>
        /\ \A p \in DOMAIN vault \ DOMAIN last.vault :
              /\ p.dir = last.file.dir
              /\ p.ext = last.file.ext
              /\ p.stem = Md5(vault[p])
              /\ vault[p] = last.vault[last.file]
              /\ last.file \notin DOMAIN vault
        /\ \A p \in DOMAIN vault \cap DOMAIN last.vault : vault[p] = last.vault[p]
        /\ DOMAIN last.vault \ DOMAIN vault \subseteq {last.file}

\* A file whose bytes hash to h2 has been renamed, beside another file.
C11_Witness ==
    /\ Called
    /\ last.decision = "rename"
    /\ \E p \in DOMAIN vault \ DOMAIN last.vault : vault[p] = "b2"
    /\ Cardinality(DOMAIN vault) > 1

\* The candidate path holds a file of the same fingerprint.
OccupiedBySame(f, v) ==
    /\ CanonicalPath(f, v) \in DOMAIN v
    /\ Fingerprint(CanonicalPath(f, v), v) = Fingerprint(f, v)

\* C12: with the merge setting off, a call on an attachment whose candidate
\* path holds a file of the same fingerprint deletes nothing, renames nothing
\* and rewrites nothing, and returns false unless one of its reads rejects;
\* and no call deletes, so a pass ends with as many files as it began with.
C12_NoDeleteWithoutMerge ==
    ~settings.mergeTheSameAttachments =>
        /\ (Called /\ ~Canonical(last.file, last.vault)
                   /\ OccupiedBySame(last.file, last.vault))
              => /\ vault = last.vault
                 /\ docs = last.docs
                 /\ last.ops = <<>>
                 /\ renamedCount = last.count
                 /\ last.result = "false" \/ last.decision = "threw"
        /\ Called => \A i \in 1..Len(last.ops) : last.ops[i].op # "delete"
        /\ InPass => Cardinality(DOMAIN vault) = Cardinality(DOMAIN pass.vault0)

\* A referenced duplicate was Blocked because merging is off.
C12_Witness ==
    /\ Called
    /\ ~settings.mergeTheSameAttachments
    /\ Engaged(last.file, last.vault, last.docs, settings)
    /\ OccupiedBySame(last.file, last.vault)
    /\ Referenced(last.file, last.docs)
    /\ last.decision = "blocked_duplicate"

\* C13: the active-document command started on a canvas that is not valid JSON
\* skips that document, reports, and runs to its end: once the command is over
\* its Notice has been shown.
C13_MalformedSkipped ==
    (/\ pc = "idle"
     /\ pass.kind = "active"
     /\ pass.active = "canvas"
     /\ ~docs[NoteCanvas].ok)
        => /\ pass.status = "reported"
           /\ notice = CountNotice(renamedCount)

\* The last call left the vault, the documents and the count as they were.
CallChangedNothing ==
    /\ vault = last.vault
    /\ docs = last.docs
    /\ last.ops = <<>>
    /\ renamedCount = last.count

\* Every file of S is, so far in the pass, where it was with the bytes it had.
Untouched(S) == \A f \in S : f \in DOMAIN vault /\ vault[f] = pass.vault0[f]

\* What the candidate path alone decides for an attachment that got that far.
DecisionOnCandidate(f, v, s) ==
    IF CanonicalPath(f, v) \notin DOMAIN v THEN "rename"
    ELSE IF OccupiedByOther(f, v) THEN "blocked_clash"
    ELSE IF s.mergeTheSameAttachments THEN "merge"
    ELSE "blocked_duplicate"

\* C14: with the only-linked setting on, a call on an attachment that no
\* document references changes nothing and is not counted, and no pass moves or
\* deletes a file that was unreferenced when the pass began; with the setting
\* off, an unreferenced non-canonical attachment is renamed, merged or blocked
\* by the candidate path alone, as a referenced one is, and counted when acted on.
C14_OnlyLinkedPolicy ==
    /\ (Called /\ settings.renameOnlyLinkedAttachments
               /\ ~Referenced(last.file, last.docs))
          => /\ CallChangedNothing
             /\ last.result = "false" \/ last.decision = "threw"
    /\ (InPass /\ settings.renameOnlyLinkedAttachments)
          => Untouched({ f \in DOMAIN pass.vault0 : ~Referenced(f, pass.docs0) })
    /\ (Called /\ ~settings.renameOnlyLinkedAttachments
               /\ ~Gated(last.file, settings)
               /\ ~Canonical(last.file, last.vault)
               /\ last.decision \notin FailureDecisions)
          => /\ last.decision = DecisionOnCandidate(last.file, last.vault, settings)
             /\ last.decision \in ActedDecisions
                   => /\ last.file \notin DOMAIN vault
                      /\ CanonicalPath(last.file, last.vault) \in DOMAIN vault
                      /\ renamedCount = last.count + 1

\* With the setting on, an unreferenced attachment whose candidate path was free
\* was left alone.
C14_Witness ==
    /\ Called
    /\ settings.renameOnlyLinkedAttachments
    /\ ~Gated(last.file, settings)
    /\ ~Canonical(last.file, last.vault)
    /\ ~Referenced(last.file, last.docs)
    /\ CanonicalPath(last.file, last.vault) \notin DOMAIN last.vault
    /\ last.decision = "unlinked"
    /\ last.file \in DOMAIN vault

\* The paths the active document of the pass linked to when the pass began.
Reachable ==
    LET doc == pass.docs0[IF pass.active = "md" THEN NoteMd ELSE NoteCanvas]
    IN  IF doc.ok THEN Range(doc.links) ELSE {}

\* The decision of the handler for a file, when no storage call fails.
DecisionTable(f, v, d, s) ==
    IF Gated(f, s) THEN "skip"
    ELSE IF Canonical(f, v) THEN "noop"
    ELSE IF ~Referenced(f, d) /\ s.renameOnlyLinkedAttachments THEN "unlinked"
    ELSE DecisionOnCandidate(f, v, s)

\* C15: the active-document command hands the handler only files its document
\* links to, and leaves every other file of the vault where it was with the
\* bytes it had; and a call of either command that meets no storage failure
\* takes the decision the vault, the documents and the settings fix for that
\* file, with the vault and the documents the handler yields from that state.
C15_ActiveRestricted ==
    /\ pass.kind = "active"
          => /\ \A i \in TraceIdx : pass.trace[i].file \in Reachable
             /\ Untouched(DOMAIN pass.vault0 \ Reachable)
    /\ (Called /\ last.decision \notin FailureDecisions)
          => LET O == renameAttachmentIfNeeded(last.file, last.vault, last.docs,
                                               settings, "none")
             IN  /\ last.decision = DecisionTable(last.file, last.vault, last.docs,
                                                  settings)
                 /\ vault = O.vault
                 /\ docs = O.docs

\* An active-document pass has renamed or merged a linked attachment and shown
\* its Notice while a file it does not link to, which a full pass would rename,
\* is still in place.
C15_Witness ==
    /\ pass.kind = "active"
    /\ pass.status = "reported"
    /\ Acted >= 1
    /\ ~settings.renameOnlyLinkedAttachments
    /\ \E f \in DOMAIN pass.vault0 \ Reachable :
          /\ DecisionTable(f, pass.vault0, pass.docs0, settings) = "rename"
          /\ f \in DOMAIN vault

\* C16: a call on a file under an ignored folder or of a type outside the allow
\* list returns false, changes nothing and is not counted, and no pass moves or
\* deletes such a file.
C16_EntryGate ==
    /\ (Called /\ Gated(last.file, settings))
          => /\ CallChangedNothing
             /\ last.result = "false"
    /\ InPass => Untouched({ f \in DOMAIN pass.vault0 : Gated(f, settings) })

\* A referenced, non-canonical file under the ignored folder was skipped.
C16_Witness ==
    /\ Called
    /\ <<last.file.dir>> \in settings.ignoreFolders
    /\ last.file.ext \in settings.renameFileTypes
    /\ ~Canonical(last.file, last.vault)
    /\ Referenced(last.file, last.docs)
    /\ last.decision = "skip"
    /\ last.file \in DOMAIN vault

\* C17: a call on an attachment whose stem already equals its fingerprint
\* changes nothing, is not counted and returns false unless its read rejects,
\* whatever the settings and the references; and no pass moves or deletes a
\* file that was canonically named when the pass began.
C17_CanonicalLeftAlone ==
    /\ (Called /\ Canonical(last.file, last.vault))
          => /\ CallChangedNothing
             /\ last.result = "false" \/ last.decision = "threw"
    /\ InPass => Untouched({ f \in DOMAIN pass.vault0 : Canonical(f, pass.vault0) })

\* With merging on and the only-linked setting off, a referenced canonical
\* attachment beside another file was left alone.
C17_Witness ==
    /\ Called
    /\ settings.mergeTheSameAttachments
    /\ ~settings.renameOnlyLinkedAttachments
    /\ ~Gated(last.file, settings)
    /\ Canonical(last.file, last.vault)
    /\ Referenced(last.file, last.docs)
    /\ Cardinality(DOMAIN vault) > 1
    /\ last.decision = "noop"

\* The distinct byte contents stored in a vault.
ContentsOf(v) == { v[p] : p \in DOMAIN v }

\* The last call removed the file it was given without putting it elsewhere.
Deleted ==
    /\ Called
    /\ last.file \notin DOMAIN vault
    /\ Cardinality(DOMAIN vault) < Cardinality(DOMAIN last.vault)

\* C18: when no two different contents of the vault share a fingerprint, the
\* vault holds at every point of a pass exactly the contents it held when the
\* pass began (so the next pass starts from a vault of the same kind, whatever
\* the settings and the storage failures), and a call deletes the file it was
\* given only while another file with the same bytes is at its canonical path.
C18_NoContentLost ==
    /\ (InPass /\ InjectiveOn(pass.vault0))
          => /\ ContentsOf(vault) = ContentsOf(pass.vault0)
             /\ InjectiveOn(vault)
    /\ (Deleted /\ InjectiveOn(last.vault))
          => LET new == CanonicalPath(last.file, last.vault)
             IN  /\ new # last.file
                 /\ new \in DOMAIN last.vault
                 /\ last.vault[new] = last.vault[last.file]
                 /\ new \in DOMAIN vault
                 /\ vault[new] = last.vault[last.file]

\* A duplicate was deleted in a vault whose contents have distinct fingerprints,
\* during a pass that began with two files.
C18_Witness ==
    /\ Deleted
    /\ InjectiveOn(pass.vault0)
    /\ Cardinality(DOMAIN pass.vault0) = 2
    /\ last.decision = "merge"
    /\ ContentsOf(vault) = ContentsOf(pass.vault0)

\* One iteration of the full pass in which every storage call succeeds.
LoopAllNoFault ==
    /\ pc = "all"
    /\ queue # <<>>
    /\ Visit("none")

\* renameAllAttachments run again and again, nothing else touching the vault.
NextRepeatAll ==
    \/ StartAll
    \/ LoopAllNoFault
    \/ ReportAll

\* Each run proceeds to its Notice and another run is always started.
SpecRepeatAll == Init /\ [][NextRepeatAll]_vars /\ WF_vars(NextRepeatAll)

\* The canonically named files of a vault.
CanonicalFiles(v) == { p \in DOMAIN v : Canonical(p, v) }

\* A counted call removed one file or made one more file canonically named,
\* and no call moved, deleted or changed a canonically named file.
CountedStepShrinks ==
    Called =>
        /\ last.result = "true"
              => \/ /\ Cardinality(DOMAIN vault) = Cardinality(DOMAIN last.vault) - 1
                    /\ CanonicalFiles(vault) = CanonicalFiles(last.vault)
                 \/ /\ Cardinality(DOMAIN vault) = Cardinality(DOMAIN last.vault)
                    /\ Cardinality(CanonicalFiles(vault)) =
                          Cardinality(CanonicalFiles(last.vault)) + 1
        /\ \A p \in CanonicalFiles(last.vault) : p \in CanonicalFiles(vault)

\* The running pass follows a full pass that reported zero, and has itself
\* changed nothing and counted nothing.
Settled ==
    /\ pass.kind = "all"
    /\ pass.follows = "clean"
    /\ ~pass.prevActed
    /\ DidNothing

\* C19: when renameAllAttachments is run repeatedly with no storage failure,
\* every counted call removes one file or makes one more file canonically
\* named while no call disturbs a canonically named file, and from some pass
\* on every pass follows a pass that reported zero and changes nothing.
C19_Converges == []CountedStepShrinks /\ <>[]Settled

\* A second pass in a row still acted (the first freed a candidate path) and
\* has shown its Notice: convergence took more than two passes.
C19_Witness ==
    /\ pass.kind = "all"
    /\ pass.follows = "clash_freed"
    /\ pass.status = "reported"
    /\ Acted >= 1
    /\ renamedCount >= 1

====
